---- MODULE Spec2Model ----
(***************************************************************************)
(* Model of src/fantasy_api.py (ESPN fantasy basketball API).              *)
(*                                                                         *)
(* Part I   the /changes endpoint: the process-wide last_snapshot and the  *)
(*          roster diff, one action per step of the handler.  FastAPI runs *)
(*          a plain "def" endpoint in a thread pool, so several handlers   *)
(*          can be in flight at once (Spec); SpecSeq runs one at a time.   *)
(* Part II  calculate_fantasy_points, /rosters_detailed, /rosters_summary  *)
(*          as pure functions of a league drawn from bounded sets          *)
(*          (SpecStats).                                                   *)
(*                                                                         *)
(* A dict is the sequence of its items [key, val] in insertion order, which *)
(* is the order Python iterates it in.                                     *)
(*                                                                         *)
(* Numbers of Part II are fixed point: the integer n stands for n * 0.002. *)
(* One hundredth is 5 units, and no multiple of 0.002 lies halfway between *)
(* two hundredths, so round(x, 2) has one well defined result.             *)
(***************************************************************************)
EXTENDS Integers, Sequences, FiniteSets

VARIABLES
    league,         \* Part I: league.teams, the list of teams in the order of the
                    \* league, each with its team_name and the names of its roster
    webhook,        \* os.getenv("DISCORD_WEBHOOK_URL") is set
    last_snapshot,  \* the global of line 153
    pc,             \* per request thread: position in changes()
    current,        \* local `current`
    changes,        \* local `changes`
    idx,            \* position of the for loop of line 165 in current.items()
    inv,            \* history of the running invocation (sent: posts attempted)
    result,         \* what the last invocation of the thread returned
    tracking,       \* history: some invocation has run to its return
    good,           \* history: roster observed by the latest such invocation
    nchg,           \* history: number of roster changes so far
    occurred,       \* history: number of players added to or dropped from a team
    ncalls,         \* history: number of requests dispatched so far
    reported,       \* history: number of player changes returned so far
    notified,       \* history: number of player changes posted so far
    post_raised,    \* history: some requests.post has raised
    league_stats,   \* Part II: league.teams, each roster by player name
    today,          \* datetime.today(), in half days since a Monday 00:00
    bucket,         \* a stat bucket handed to calculate_fantasy_points
    extra,          \* a category outside SCORING_WEIGHTS and its value
    score,          \* calculate_fantasy_points of bucket, without and with extra
    out             \* the response of the last /rosters_* request

varsChanges == <<league, webhook, last_snapshot, pc, current, changes, idx,
                 inv, result, tracking, good, nchg, occurred, ncalls,
                 reported, notified, post_raised>>

varsStats == <<league_stats, today, bucket, extra, score, out>>

vars == <<varsChanges, varsStats>>

----------------------------------------------------------------------------
(* Bounds and universes of Part I *)

MaxChanges == 2
MaxCalls == 3
MaxCount == 6

Teams == {"A", "B"}
Players == {"X", "Y", "Z"}
Threads == {1, 2}
MainThread == 1

----------------------------------------------------------------------------
(* Values *)

\* {}
EmptyDict == <<>>
EmptyChanges == <<>>

\* set(players)
ToSet(s) == {s[i] : i \in DOMAIN s}

InitRosters == {<<>>, <<"X", "Y">>}

\* the orders league.teams can list some of the teams in
InitOrders ==
    {o \in UNION {[1..n -> Teams] : n \in 0..Cardinality(Teams)} :
        \A i, j \in DOMAIN o : i # j => o[i] # o[j]}

InitLeagues ==
    UNION {{[i \in DOMAIN o |-> [team_name |-> o[i], roster |-> r[i]]] :
               r \in [DOMAIN o -> InitRosters]} : o \in InitOrders}

\* the keys of a dict, in insertion order
Keys(d) == [i \in DOMAIN d |-> d[i].key]

HasKey(d, k) == \E i \in DOMAIN d : d[i].key = k

\* d.get(k, default)
DictGet(d, k, default) ==
    IF HasKey(d, k) THEN d[CHOOSE i \in DOMAIN d : d[i].key = k].val ELSE default

\* d[k] = v: a key the dict holds keeps its place, a new one goes last
DictPut(d, k, v) ==
    IF HasKey(d, k)
    THEN [i \in DOMAIN d |-> IF d[i].key = k THEN [key |-> k, val |-> v] ELSE d[i]]
    ELSE Append(d, [key |-> k, val |-> v])

\* {t.team_name: [p.name for p in t.roster] for t in league.teams}
RECURSIVE FetchRosters(_)
FetchRosters(lg) ==
    IF lg = <<>> THEN EmptyDict
    ELSE LET t == lg[Len(lg)]
         IN  DictPut(FetchRosters(SubSeq(lg, 1, Len(lg) - 1)), t.team_name,
                     [i \in 1..Len(t.roster) |-> t.roster[i]])

\* a differ that compares against the stored snapshot on every call
SnapshotHeldAlways(snap) == TRUE

\* truth value of the dict in `if last_snapshot:`
SnapshotHeld(snap) == Len(snap) > 0

\* last_snapshot.get(team, [])
GetPlayers(snap, team) == DictGet(snap, team, <<>>)

Added(players, old_players) == ToSet(players) \ ToSet(old_players)
Removed(players, old_players) == ToSet(old_players) \ ToSet(players)

\* changes[team] = {"added": added, "removed": removed}
PutChange(chg, team, added, removed) ==
    DictPut(chg, team, [added |-> added, removed |-> removed])

\* a differ that keeps the old snapshot when it has reported changes
NewSnapshotUnlessChanged(cur, chg, old) == IF chg = EmptyChanges THEN cur ELSE old

\* last_snapshot = current
NewSnapshot(cur, chg, old) == cur

Min(a, b) == IF a < b THEN a ELSE b

RECURSIVE CountChanges(_)
CountChanges(chg) ==
    IF chg = <<>> THEN 0
    ELSE Cardinality(Head(chg).val.added) + Cardinality(Head(chg).val.removed)
         + CountChanges(Tail(chg))

NoInv == [first |-> FALSE, prev |-> <<>>, before |-> EmptyDict,
          observed |-> <<>>, sent |-> 0, postFailed |-> FALSE]

NoResult == [status |-> "none", cause |-> "none", changes |-> EmptyChanges,
             first |-> FALSE, prev |-> <<>>, before |-> EmptyDict,
             observed |-> <<>>, sent |-> 0, postFailed |-> FALSE]

MkResult(status, cause, chg, h) ==
    [status |-> status, cause |-> cause, changes |-> chg,
     first |-> h.first, prev |-> h.prev, before |-> h.before,
     observed |-> h.observed, sent |-> h.sent, postFailed |-> h.postFailed]

----------------------------------------------------------------------------
(* Part I: initial state *)

InitChanges ==
    /\ league \in InitLeagues
    /\ webhook \in BOOLEAN
    /\ last_snapshot = EmptyDict
    /\ pc = [t \in Threads |-> "idle"]
    /\ current = [t \in Threads |-> EmptyDict]
    /\ changes = [t \in Threads |-> EmptyChanges]
    /\ idx = [t \in Threads |-> 0]
    /\ inv = [t \in Threads |-> NoInv]
    /\ result = [t \in Threads |-> NoResult]
    /\ tracking = FALSE
    /\ good = <<>>
    /\ nchg = 0
    /\ occurred = 0
    /\ ncalls = 0
    /\ reported = 0
    /\ notified = 0
    /\ post_raised = FALSE

----------------------------------------------------------------------------
(* The league data source: rosters change between and during requests *)

EnvFrame == UNCHANGED <<webhook, last_snapshot, pc, current, changes, idx, inv,
                        result, tracking, good, ncalls, reported, notified, post_raised>>

TeamNames(lg) == {lg[i].team_name : i \in DOMAIN lg}

AddPlayer(i, p) ==
    /\ nchg < MaxChanges
    /\ i \in DOMAIN league
    /\ p \notin ToSet(league[i].roster)
    /\ league' = [league EXCEPT ![i].roster = Append(@, p)]
    /\ nchg' = nchg + 1
    /\ occurred' = occurred + 1
    /\ EnvFrame

DropPlayer(i, p) ==
    /\ nchg < MaxChanges
    /\ i \in DOMAIN league
    /\ p \in ToSet(league[i].roster)
    /\ league' = [league EXCEPT ![i].roster = SelectSeq(@, LAMBDA q : q # p)]
    /\ nchg' = nchg + 1
    /\ occurred' = occurred + 1
    /\ EnvFrame

\* a new team is listed after the teams of the league
TeamJoins(team) ==
    /\ nchg < MaxChanges
    /\ team \notin TeamNames(league)
    /\ league' = Append(league, [team_name |-> team, roster |-> <<>>])
    /\ nchg' = nchg + 1
    /\ occurred' = occurred
    /\ EnvFrame

TeamLeaves(i) ==
    /\ nchg < MaxChanges
    /\ i \in DOMAIN league
    /\ league[i].roster = <<>>
    /\ league' = [j \in 1..(Len(league) - 1) |->
                     IF j < i THEN league[j] ELSE league[j + 1]]
    /\ nchg' = nchg + 1
    /\ occurred' = occurred
    /\ EnvFrame

RosterChange ==
    \/ \E i \in 1..Cardinality(Teams) :
           \/ \E p \in Players : AddPlayer(i, p) \/ DropPlayer(i, p)
           \/ TeamLeaves(i)
    \/ \E team \in Teams : TeamJoins(team)

----------------------------------------------------------------------------
(* changes(), lines 156-182 *)

\* the request is dispatched to a worker and the handler is entered
Start(t) ==
    /\ pc[t] = "idle"
    /\ ncalls < MaxCalls
    /\ ncalls' = ncalls + 1
    /\ pc' = [pc EXCEPT ![t] = "fetch"]
    /\ inv' = [inv EXCEPT ![t] = [first |-> ~tracking, prev |-> good,
                                  before |-> last_snapshot, observed |-> <<>>,
                                  sent |-> 0, postFailed |-> FALSE]]
    /\ result' = [result EXCEPT ![t] = NoResult]
    /\ UNCHANGED <<league, webhook, last_snapshot, current, changes, idx,
                   tracking, good, nchg, occurred, reported, notified, post_raised>>

\* line 160-161
Fetch(t) ==
    /\ pc[t] = "fetch"
    /\ current' = [current EXCEPT ![t] = FetchRosters(league)]
    /\ changes' = [changes EXCEPT ![t] = EmptyChanges]
    /\ inv' = [inv EXCEPT ![t].observed = league]
    /\ pc' = [pc EXCEPT ![t] = "check"]
    /\ UNCHANGED <<league, webhook, last_snapshot, idx, result, tracking, good,
                   nchg, occurred, ncalls, reported, notified, post_raised>>

\* a handler that fills last_snapshot while it reads the league: the teams
\* read before the failure (all but the last) are already stored
FetchRaiseClobber(t) ==
    /\ pc[t] = "fetch"
    /\ pc' = [pc EXCEPT ![t] = "idle"]
    /\ last_snapshot' = FetchRosters(SubSeq(league, 1, Len(league) - 1))
    /\ result' = [result EXCEPT ![t] = MkResult("error", "fetch", EmptyChanges, inv[t])]
    /\ inv' = [inv EXCEPT ![t] = NoInv]
    /\ UNCHANGED <<league, webhook, current, changes, idx,
                   tracking, good, nchg, occurred, ncalls, reported, notified, post_raised>>

\* line 160 raises: the exception leaves changes() before any assignment
FetchRaise(t) ==
    /\ pc[t] = "fetch"
    /\ pc' = [pc EXCEPT ![t] = "idle"]
    /\ result' = [result EXCEPT ![t] = MkResult("error", "fetch", EmptyChanges, inv[t])]
    /\ inv' = [inv EXCEPT ![t] = NoInv]
    /\ UNCHANGED <<league, webhook, last_snapshot, current, changes, idx,
                   tracking, good, nchg, occurred, ncalls, reported, notified, post_raised>>

\* line 164, and entering the loop of line 165
Check(t) ==
    /\ pc[t] = "check"
    /\ IF SnapshotHeld(last_snapshot) /\ Len(current[t]) > 0
       THEN /\ pc' = [pc EXCEPT ![t] = "loop"]
            /\ idx' = [idx EXCEPT ![t] = 1]
       ELSE /\ pc' = [pc EXCEPT ![t] = "store"]
            /\ idx' = [idx EXCEPT ![t] = 0]
    /\ UNCHANGED <<league, webhook, last_snapshot, current, changes, inv, result,
                   tracking, good, nchg, occurred, ncalls, reported, notified, post_raised>>

AfterTeam(t) == IF idx[t] + 1 > Len(current[t]) THEN "store" ELSE "loop"

\* one iteration of the loop over current.items(), lines 165-178 (up to the
\* post)
LoopTeam(t) ==
    /\ pc[t] = "loop"
    /\ LET team == Keys(current[t])[idx[t]]
           players == current[t][idx[t]].val
           old_players == GetPlayers(last_snapshot, team)
           added == Added(players, old_players)
           removed == Removed(players, old_players)
       IN  IF added # {} \/ removed # {}
           THEN /\ changes' = [changes EXCEPT ![t] = PutChange(@, team, added, removed)]
                /\ IF webhook
                   THEN pc' = [pc EXCEPT ![t] = "post"] /\ idx' = idx
                   ELSE /\ pc' = [pc EXCEPT ![t] = AfterTeam(t)]
                        /\ idx' = [idx EXCEPT ![t] = @ + 1]
           ELSE /\ changes' = changes
                /\ pc' = [pc EXCEPT ![t] = AfterTeam(t)]
                /\ idx' = [idx EXCEPT ![t] = @ + 1]
    /\ UNCHANGED <<league, webhook, last_snapshot, current, inv, result,
                   tracking, good, nchg, occurred, ncalls, reported, notified, post_raised>>

PostedCount(t) ==
    LET c == DictGet(changes[t], Keys(current[t])[idx[t]],
                     [added |-> {}, removed |-> {}])
    IN  Cardinality(c.added) + Cardinality(c.removed)

\* line 179: the webhook accepts the message
PostOk(t) ==
    /\ pc[t] = "post"
    /\ notified' = Min(notified + PostedCount(t), MaxCount)
    /\ inv' = [inv EXCEPT ![t].sent = @ + 1]
    /\ pc' = [pc EXCEPT ![t] = AfterTeam(t)]
    /\ idx' = [idx EXCEPT ![t] = @ + 1]
    /\ UNCHANGED <<league, webhook, last_snapshot, current, changes, result,
                   tracking, good, nchg, occurred, ncalls, reported, post_raised>>

\* line 179: the webhook answers with an error status; requests.post returns
\* the response and nobody looks at it
PostRejected(t) ==
    /\ pc[t] = "post"
    /\ inv' = [inv EXCEPT ![t].postFailed = TRUE, ![t].sent = @ + 1]
    /\ pc' = [pc EXCEPT ![t] = AfterTeam(t)]
    /\ idx' = [idx EXCEPT ![t] = @ + 1]
    /\ UNCHANGED <<league, webhook, last_snapshot, current, changes, result,
                   tracking, good, nchg, occurred, ncalls, reported, notified, post_raised>>

\* line 179: requests.post raises (connection refused, DNS failure, ...);
\* nothing catches it, so it leaves changes() before line 181
PostRaise(t) ==
    /\ pc[t] = "post"
    /\ pc' = [pc EXCEPT ![t] = "idle"]
    /\ result' = [result EXCEPT ![t] =
                     MkResult("error", "post", EmptyChanges,
                              [inv[t] EXCEPT !.postFailed = TRUE, !.sent = @ + 1])]
    /\ inv' = [inv EXCEPT ![t] = NoInv]
    /\ current' = [current EXCEPT ![t] = EmptyDict]
    /\ changes' = [changes EXCEPT ![t] = EmptyChanges]
    /\ idx' = [idx EXCEPT ![t] = 0]
    /\ UNCHANGED <<league, webhook, last_snapshot, tracking, good, nchg, occurred,
                   ncalls, reported, notified>>
    /\ post_raised' = TRUE

\* lines 181-182; the timestamp of the response is left out
Store(t) ==
    /\ pc[t] = "store"
    /\ last_snapshot' = NewSnapshot(current[t], changes[t], last_snapshot)
    /\ result' = [result EXCEPT ![t] = MkResult("ok", "none", changes[t], inv[t])]
    /\ tracking' = TRUE
    /\ good' = inv[t].observed
    /\ reported' = Min(reported + CountChanges(changes[t]), MaxCount)
    /\ pc' = [pc EXCEPT ![t] = "idle"]
    /\ inv' = [inv EXCEPT ![t] = NoInv]
    /\ current' = [current EXCEPT ![t] = EmptyDict]
    /\ changes' = [changes EXCEPT ![t] = EmptyChanges]
    /\ idx' = [idx EXCEPT ![t] = 0]
    /\ UNCHANGED <<league, webhook, nchg, occurred, ncalls, notified, post_raised>>

----------------------------------------------------------------------------
(* Part II: values.  A number n is written Num(n); None is the null of a   *)
(* missing statistic.                                                      *)

MaxTeams == 3
MaxRosterLen == 2

None == <<>>
Num(n) == <<n>>

EmptyBucket == [c \in {} |-> None]

\* SCORING_WEIGHTS, lines 61-77, and the order of its items
SCORING_WEIGHTS ==
    [c \in {"FGM", "FGMI", "FTM", "FTMI", "3PM", "OREB", "REB", "AST", "STL",
            "BLK", "TO", "DD", "TD", "QD", "PTS"} |->
        CASE c = "FGM" -> 1   [] c = "FGMI" -> 0 - 1 [] c = "FTM" -> 1
          [] c = "FTMI" -> 0 - 1 [] c = "3PM" -> 1   [] c = "OREB" -> 1
          [] c = "REB" -> 1   [] c = "AST" -> 1      [] c = "STL" -> 2
          [] c = "BLK" -> 2   [] c = "TO" -> 0 - 2   [] c = "DD" -> 3
          [] c = "TD" -> 5    [] c = "QD" -> 10      [] c = "PTS" -> 1]

WeightOrder == <<"FGM", "FGMI", "FTM", "FTMI", "3PM", "OREB", "REB", "AST",
                 "STL", "BLK", "TO", "DD", "TD", "QD", "PTS">>

\* (d.get(key, 0) or 0)
GetOr0(d, key) == IF key \in DOMAIN d /\ d[key] # None THEN d[key][1] ELSE 0

\* round(x, 2): the nearest multiple of 5 units
Round2(n) == LET r == n % 5 IN IF r <= 2 THEN n - r ELSE n + (5 - r)

\* the loop of lines 85-86 over the first k items of SCORING_WEIGHTS
RECURSIVE WeightedTotal(_, _)
WeightedTotal(stats, k) ==
    IF k = 0 THEN 0
    ELSE WeightedTotal(stats, k - 1)
         + GetOr0(stats, WeightOrder[k]) * SCORING_WEIGHTS[WeightOrder[k]]

\* the weight of a category, 1 for one SCORING_WEIGHTS does not list
WeightOr1(c) == IF c \in DOMAIN SCORING_WEIGHTS THEN SCORING_WEIGHTS[c] ELSE 1

RECURSIVE TotalOfAll(_, _)
TotalOfAll(stats, cats) ==
    IF cats = {} THEN 0
    ELSE LET c == CHOOSE x \in cats : TRUE
         IN  GetOr0(stats, c) * WeightOr1(c) + TotalOfAll(stats, cats \ {c})

\* a scorer that walks the categories of the bucket instead of the weights
ScoreEveryCategory(stats) ==
    IF DOMAIN stats = {} THEN 0
    ELSE Round2(TotalOfAll(stats, DOMAIN stats))

\* lines 80-87
calculate_fantasy_points(stats) ==
    IF DOMAIN stats = {} THEN 0
    ELSE Round2(WeightedTotal(stats, Len(WeightOrder)))

\* d.get(key, {})
GetDict(d, key) == IF key \in DOMAIN d THEN d[key] ELSE EmptyBucket

\* a or b, for dicts
OrDict(a, b) == IF DOMAIN a # {} THEN a ELSE b

\* lines 209-213 and 325-329; "Yproj" is the key f"{YEAR}_projected"
ProjTotal(player) ==
    OrDict(GetDict(GetDict(player.stats, "Yproj"), "total"),
           OrDict(GetDict(player.stats, "projected_total"), EmptyBucket))

\* lines 196-197: Monday and Sunday of this week, at the time of day of today
Weekday(t) == (t \div 2) % 7
StartOfWeek(t) == t - 2 * Weekday(t)
EndOfWeek(t) == StartOfWeek(t) + 12

\* lines 221-224
RECURSIVE GamesThisWeek(_, _)
GamesThisWeek(schedule, t) ==
    IF schedule = <<>> THEN 0
    ELSE LET g == Head(schedule)
         IN  (IF g # None /\ StartOfWeek(t) <= g[1] /\ g[1] <= EndOfWeek(t)
              THEN 1 ELSE 0)
             + GamesThisWeek(Tail(schedule), t)

DetailedStats == <<"PTS", "REB", "AST", "BLK", "STL">>
SummaryStats == <<"PTS", "REB", "AST", "BLK", "STL", "3PM", "TO">>

SeqToSet(s) == {s[i] : i \in DOMAIN s}

\* the bucket a rollup reads from a player: which is "total" or "projected"
RollupBucket(player, which) ==
    IF which = "total" THEN GetDict(player.stats, "total") ELSE ProjTotal(player)

\* one entry of the rollup of lines 271-275 and 332-338 over the first k players
RECURSIVE RollupCat(_, _, _, _)
RollupCat(roster, k, c, which) ==
    IF k = 0 THEN 0
    ELSE RollupCat(roster, k - 1, c, which)
         + (IF c = "FPTS"
            THEN calculate_fantasy_points(RollupBucket(roster[k], which))
            ELSE GetOr0(RollupBucket(roster[k], which), c))

Rollup(roster, k, cats, which) ==
    [c \in SeqToSet(cats) \cup {"FPTS"} |-> RollupCat(roster, k, c, which)]

\* {k: round(v, 2) for k, v in totals.items()}
RoundAll(totals) == [c \in DOMAIN totals |-> Round2(totals[c])]

\* line 231: total_stats.get("GP", 0), which is None where ESPN sends a null
GamesPlayed(player) ==
    LET total_stats == GetDict(player.stats, "total")
    IN  IF "GP" \in DOMAIN total_stats THEN total_stats["GP"] ELSE Num(0)

\* total / gp lies halfway between two hundredths
Halfway(total, gp) == gp > 0 /\ (200 * total + gp) % (2 * gp) = 0

\* round(total / gp, 2) for gp > 0: total / gp is 500 * total / gp units, and
\* the result the nearest number of hundredths.  A quotient halfway between
\* two hundredths is settled by the binary value of the float, which these
\* numbers do not carry (0.125 gives 0.12, 0.375 gives 0.38, 0.005 and 0.015
\* both give 0.01).  Each quotient is rounded on its own: up is the set of the
\* pairs <<total, gp>> whose halfway quotient goes to the upper hundredth, the
\* others go to the lower one.
PerGame(total, gp, up) ==
    LET q == (200 * total + gp) \div (2 * gp)
    IN  5 * (IF Halfway(total, gp) /\ <<total, gp>> \notin up THEN q - 1 ELSE q)

\* line 232, for a gp that is a number
PointsPerGame(total, gp, up) == IF gp[1] > 0 THEN PerGame(total, gp[1], up) ELSE 0

\* lines 235-266, the computed fields and games_played (position, pro_team,
\* injury_status and the avg_* and total_* copies of the stats are left out)
PlayerInfo(player, t, up) ==
    LET fantasy_points_total == calculate_fantasy_points(GetDict(player.stats, "total"))
        gp == GamesPlayed(player)
    IN  [name |-> player.name,
         games_this_week |-> GamesThisWeek(player.schedule, t),
         fantasy_points_total_calc |-> fantasy_points_total,
         fantasy_points_per_game |-> PointsPerGame(fantasy_points_total, gp, up),
         fantasy_points_projected_calc |-> calculate_fantasy_points(ProjTotal(player)),
         games_played |-> gp]

\* lines 199-282, one team
DetailedEntry(team, t, up) ==
    [team |-> team.team_name,
     season_totals |->
         RoundAll(Rollup(team.roster, Len(team.roster), DetailedStats, "total")),
     projected_weekly_totals |->
         RoundAll(Rollup(team.roster, Len(team.roster), DetailedStats, "projected")),
     roster |-> [i \in 1..Len(team.roster) |-> PlayerInfo(team.roster[i], t, up)]]

\* line 232 compares gp with 0: for a gp of None the comparison raises
\* TypeError
RaisesTypeError(lg) ==
    \E i \in DOMAIN lg : \E j \in DOMAIN lg[i].roster :
        GamesPlayed(lg[i].roster[j]) = None

\* the pairs <<total, gp>> of the league whose quotient is halfway
HalfwayPairs(lg) ==
    LET at == {ij \in UNION {{<<i, j>> : j \in DOMAIN lg[i].roster} : i \in DOMAIN lg} :
                  GamesPlayed(lg[ij[1]].roster[ij[2]]) # None}
        pair(ij) ==
            LET player == lg[ij[1]].roster[ij[2]]
            IN  <<calculate_fantasy_points(GetDict(player.stats, "total")),
                  GamesPlayed(player)[1]>>
    IN  {pr \in {pair(ij) : ij \in at} : Halfway(pr[1], pr[2])}

Raised(e) == [status |-> "error", error |-> e, value |-> <<>>]
Returned(v) == [status |-> "ok", error |-> "none", value |-> v]

\* lines 188-284: the list of the teams, or the exception that ends the
\* request at the first player with a null GP
rosters_detailed(lg, t, up) ==
    IF RaisesTypeError(lg) THEN Raised("TypeError")
    ELSE Returned([i \in 1..Len(lg) |-> DetailedEntry(lg[i], t, up)])

\* lines 300-350, one team (the two shooting averages are left out)
SummaryEntry(team) ==
    [team |-> team.team_name,
     season_totals |->
         RoundAll(Rollup(team.roster, Len(team.roster), SummaryStats, "total")),
     projected_weekly_totals |->
         RoundAll(Rollup(team.roster, Len(team.roster), SummaryStats, "projected"))]

SortKey(x) == x.projected_weekly_totals["FPTS"]

Reverse(s) == [i \in 1..Len(s) |-> s[Len(s) + 1 - i]]

\* stable insertion of x into the ascending sequence s: after every element
\* whose key is not larger
RECURSIVE InsertAsc(_, _)
InsertAsc(s, x) ==
    IF s = <<>> THEN <<x>>
    ELSE IF SortKey(s[Len(s)]) <= SortKey(x) THEN Append(s, x)
    ELSE Append(InsertAsc(SubSeq(s, 1, Len(s) - 1), x), s[Len(s)])

RECURSIVE SortAsc(_)
SortAsc(s) ==
    IF s = <<>> THEN <<>>
    ELSE InsertAsc(SortAsc(SubSeq(s, 1, Len(s) - 1)), s[Len(s)])

\* a descending sort that reverses an ascending one: equal keys change places
SortReverseUnstable(s) == Reverse(SortAsc(s))

\* list.sort(key=..., reverse=True), line 353: the list is reversed, sorted
\* stably in ascending order, and reversed again
SortReverse(s) == Reverse(SortAsc(Reverse(s)))

\* lines 288-354
rosters_summary(lg) ==
    Returned(SortReverse([i \in 1..Len(lg) |-> SummaryEntry(lg[i])]))

----------------------------------------------------------------------------
(* Part II: inputs *)

PlayerX ==
    [name |-> "X",
     stats |-> [k \in {"total", "Yproj"} |->
                   IF k = "total" THEN [c \in {"PTS", "GP"} |-> Num(20)]
                   ELSE [v \in {"total"} |-> [c \in {"PTS"} |-> Num(10)]]],
     schedule |-> <<>>]

PlayerY ==
    [name |-> "Y",
     stats |-> [k \in {"total", "projected_total"} |->
                   IF k = "total" THEN [c \in {"PTS", "TO"} |-> Num(4)]
                   ELSE [c \in {"PTS", "REB", "TO"} |->
                            IF c = "PTS" THEN Num(3)
                            ELSE IF c = "REB" THEN Num(1) ELSE None]],
     schedule |-> <<Num(1), Num(40)>>]

PlayerZ ==
    [name |-> "Z",
     stats |-> [k \in {"total", "Yproj", "projected_total"} |->
                   IF k = "total" THEN [c \in {"GP"} |-> None]
                   ELSE IF k = "Yproj" THEN [v \in {"avg"} |-> [c \in {"PTS"} |-> Num(1)]]
                   ELSE [c \in {"STL"} |-> Num(5)]],
     schedule |-> <<None>>]

PlayerPool == {"X", "Y", "Z"}

\* the Player object the league holds under a name
Player(name) ==
    CASE name = "X" -> PlayerX
      [] name = "Y" -> PlayerY
      [] name = "Z" -> PlayerZ

\* a team of league.teams with its Player objects
TeamOf(tm) ==
    [team_name |-> tm.team_name,
     roster |-> [i \in 1..Len(tm.roster) |-> Player(tm.roster[i])]]

LeagueTeams(lg) == [i \in 1..Len(lg) |-> TeamOf(lg[i])]

PoolOrder == <<"X", "Y", "Z">>

\* rosters of at most MaxRosterLen players, no player twice, in PoolOrder
StatRosters ==
    {SelectSeq(PoolOrder, LAMBDA p : p \in S) :
        S \in {T \in SUBSET PlayerPool : Cardinality(T) <= MaxRosterLen}}

\* league.teams with the rosters f: the i-th team is named <<"T", i>>
StatLeague(f) == [i \in DOMAIN f |-> [team_name |-> <<"T", i>>, roster |-> f[i]]]

Days == {3, 14}

BucketCats == {"PTS", "TO", "GP"}
BucketValues == {None, Num(1), Num(3)}
Buckets == UNION {[D -> BucketValues] : D \in SUBSET BucketCats}
Extras == [cat : {"FG%", "GP2"}, val : BucketValues]

\* b with the category of e set to its value
WithExtra(b, e) == [c \in DOMAIN b \cup {e.cat} |-> IF c = e.cat THEN e.val ELSE b[c]]

NoScore == [plain |-> None, extended |-> None]
NoOut == [op |-> "none", status |-> "none", error |-> "none", value |-> <<>>]

StatsIdle ==
    /\ league_stats = <<>>
    /\ today = 0
    /\ out = NoOut

ScoreIdle ==
    /\ bucket = EmptyBucket
    /\ extra = [cat |-> "FG%", val |-> None]
    /\ score = NoScore

ChangesIdle ==
    /\ league = <<>>
    /\ webhook = FALSE
    /\ last_snapshot = EmptyDict
    /\ pc = [t \in Threads |-> "idle"]
    /\ current = [t \in Threads |-> EmptyDict]
    /\ changes = [t \in Threads |-> EmptyChanges]
    /\ idx = [t \in Threads |-> 0]
    /\ inv = [t \in Threads |-> NoInv]
    /\ result = [t \in Threads |-> NoResult]
    /\ tracking = FALSE
    /\ good = <<>>
    /\ nchg = 0
    /\ occurred = 0
    /\ ncalls = 0
    /\ reported = 0
    /\ notified = 0
    /\ post_raised = FALSE

InitStats ==
    /\ \E k \in 0..MaxTeams : \E f \in [1..k -> StatRosters] :
           league_stats = StatLeague(f)
    /\ today \in Days
    /\ out = NoOut
    /\ ScoreIdle
    /\ ChangesIdle

InitScore ==
    /\ bucket \in Buckets
    /\ extra \in Extras
    /\ score = NoScore
    /\ StatsIdle
    /\ ChangesIdle

----------------------------------------------------------------------------
(* Part II: requests *)

Response(op, r) ==
    [op |-> op, status |-> r.status, error |-> r.error, value |-> r.value]

RostersDetailed ==
    /\ \E up \in SUBSET HalfwayPairs(LeagueTeams(league_stats)) :
           out' = Response("detailed",
                           rosters_detailed(LeagueTeams(league_stats), today, up))
    /\ UNCHANGED <<league_stats, today, bucket, extra, score, varsChanges>>

RostersSummary ==
    /\ out' = Response("summary", rosters_summary(LeagueTeams(league_stats)))
    /\ UNCHANGED <<league_stats, today, bucket, extra, score, varsChanges>>

ScorePlain ==
    /\ score' = [score EXCEPT !.plain = Num(calculate_fantasy_points(bucket))]
    /\ UNCHANGED <<league_stats, today, bucket, extra, out, varsChanges>>

ScoreExtended ==
    /\ extra.cat \notin DOMAIN bucket
    /\ score' = [score EXCEPT
                    !.extended = Num(calculate_fantasy_points(WithExtra(bucket, extra)))]
    /\ UNCHANGED <<league_stats, today, bucket, extra, out, varsChanges>>

NextStats == RostersDetailed \/ RostersSummary

NextScore == ScorePlain \/ ScoreExtended

SpecStats == InitStats /\ [][NextStats]_vars

SpecScore == InitScore /\ [][NextScore]_vars

----------------------------------------------------------------------------
\* a request arrives while no other is being handled
StartSeq ==
    /\ \A u \in Threads : pc[u] = "idle"
    /\ Start(MainThread)

Step(t) ==
    \/ Fetch(t)
    \/ FetchRaise(t)
    \/ Check(t)
    \/ LoopTeam(t)
    \/ PostOk(t)
    \/ PostRejected(t)
    \/ PostRaise(t)
    \/ Store(t)

Next ==
    \/ RosterChange /\ UNCHANGED varsStats
    \/ \E t \in Threads : Start(t) /\ UNCHANGED varsStats
    \/ \E t \in Threads : Step(t) /\ UNCHANGED varsStats

NextSeq ==
    \/ RosterChange /\ UNCHANGED varsStats
    \/ StartSeq /\ UNCHANGED varsStats
    \/ \E t \in Threads : Step(t) /\ UNCHANGED varsStats

Init == InitChanges /\ StatsIdle /\ ScoreIdle

Spec == Init /\ [][Next]_vars

SpecSeq == Init /\ [][NextSeq]_vars

----------------------------------------------------------------------------
(* Properties of /changes *)

\* a dict as the mapping from its keys to their values
AsMap(d) ==
    [k \in {d[i].key : i \in DOMAIN d} |->
        d[CHOOSE i \in DOMAIN d : d[i].key = k].val]

\* the mapping from team name to roster that league.teams presents
RosterMap(lg) ==
    [n \in {lg[i].team_name : i \in DOMAIN lg} |->
        lg[CHOOSE i \in DOMAIN lg : lg[i].team_name = n].roster]

\* the diff of section 4.5: for every team of cur, the players added to and
\* removed from prev, the teams without either left out
ExpectedChanges(prev, cur) ==
    LET old(team) == IF team \in DOMAIN prev THEN ToSet(prev[team]) ELSE {}
        new(team) == ToSet(cur[team])
    IN  [team \in {u \in DOMAIN cur : new(u) \ old(u) # {} \/ old(u) \ new(u) # {}} |->
            [added |-> new(team) \ old(team), removed |-> old(team) \ new(team)]]

HasPlayers(m) == \E team \in DOMAIN m : m[team] # <<>>

\* C1: the first invocation, made while no invocation has returned yet,
\* returns an empty change set, posts no notification, and leaves the roster
\* it observed in last_snapshot, whatever that roster is.
FirstCallIsBaseline ==
    \A t \in Threads :
        (result[t].status = "ok" /\ result[t].first) =>
            /\ result[t].changes = EmptyChanges
            /\ result[t].sent = 0
            /\ (pc[t] = "idle" =>
                    /\ AsMap(last_snapshot) = RosterMap(result[t].observed)
                    /\ Keys(last_snapshot)
                           = [i \in DOMAIN result[t].observed |->
                                 result[t].observed[i].team_name])

FirstCallIsBaselineWitness ==
    \E t \in Threads :
        /\ pc[t] = "idle"
        /\ result[t].status = "ok"
        /\ result[t].first
        /\ webhook
        /\ HasPlayers(RosterMap(result[t].observed))
        /\ Len(result[t].observed) = 2
        /\ result[t].observed[1].team_name = "B"

\* C2: every invocation after the first returns, for every team of the
\* roster it observes, the players added and removed since the roster the
\* invocation before it observed, and only the teams where there are any.
LaterCallReturnsDiff ==
    \A t \in Threads :
        (result[t].status = "ok" /\ ~result[t].first) =>
            AsMap(result[t].changes)
                = ExpectedChanges(RosterMap(result[t].prev), RosterMap(result[t].observed))

\* the same, for the invocations that find a non-empty dict in last_snapshot
LaterCallReturnsDiffOfNonEmpty ==
    \A t \in Threads :
        (result[t].status = "ok" /\ ~result[t].first /\ result[t].prev # <<>>) =>
            AsMap(result[t].changes)
                = ExpectedChanges(RosterMap(result[t].prev), RosterMap(result[t].observed))

\* C3: an invocation that observes the roster the completed invocation
\* before it observed returns an empty change set.
RepeatedCallIsEmpty ==
    \A t \in Threads :
        (result[t].status = "ok" /\ ~result[t].first
            /\ RosterMap(result[t].observed) = RosterMap(result[t].prev)) =>
            result[t].changes = EmptyChanges

RepeatedCallIsEmptyWitness ==
    \E t \in Threads :
        /\ result[t].status = "ok"
        /\ ~result[t].first
        /\ RosterMap(result[t].observed) = RosterMap(result[t].prev)
        /\ HasPlayers(RosterMap(result[t].prev))
        /\ nchg > 0

\* C4: whatever the interleaving of the requests, no player change is
\* returned or posted more often than it happened (as long as every post
\* went through, so that no request was cut short).
ChangeReportedOnce ==
    ~post_raised =>
        /\ reported <= occurred
        /\ notified <= occurred

\* C5: an invocation whose notification could not be delivered still returns
\* the diff and still replaces last_snapshot by the roster it observed.
DispatchFailureIsSwallowed ==
    \A t \in Threads :
        (pc[t] = "idle" /\ result[t].postFailed) =>
            /\ result[t].status = "ok"
            /\ AsMap(result[t].changes)
                   = ExpectedChanges(AsMap(result[t].before), RosterMap(result[t].observed))
            /\ AsMap(last_snapshot) = RosterMap(result[t].observed)

\* C6: an invocation whose league fetch fails leaves last_snapshot as it
\* found it, which is the roster the last completed invocation observed.
FetchFailureKeepsSnapshot ==
    \A t \in Threads :
        (pc[t] = "idle" /\ result[t].status = "error" /\ result[t].cause = "fetch") =>
            /\ last_snapshot = result[t].before
            /\ AsMap(last_snapshot) = RosterMap(good)

FetchFailureKeepsSnapshotWitness ==
    \E t \in Threads :
        /\ pc[t] = "idle"
        /\ result[t].status = "error"
        /\ result[t].cause = "fetch"
        /\ tracking
        /\ HasPlayers(AsMap(last_snapshot))
        /\ RosterMap(league) # AsMap(last_snapshot)

\* C10: an invocation made after one that observed a league without teams
\* still diffs against that observation: it returns every player of the
\* teams it observes as added.
TrackingAfterEmptyLeague ==
    \A t \in Threads :
        (result[t].status = "ok" /\ ~result[t].first /\ result[t].prev = <<>>) =>
            AsMap(result[t].changes)
                = LET obs == RosterMap(result[t].observed)
                  IN  [team \in {u \in DOMAIN obs : obs[u] # <<>>} |->
                          [added |-> ToSet(obs[team]), removed |-> {}]]

----------------------------------------------------------------------------
(* Properties of the scoring and of the rollups *)

\* the sum over the categories of SCORING_WEIGHTS, 0 for a missing or null one
RECURSIVE SumOver(_, _)
SumOver(b, cats) ==
    IF cats = {} THEN 0
    ELSE LET c == CHOOSE x \in cats : TRUE
         IN  (IF c \in DOMAIN b /\ b[c] # None THEN b[c][1] * SCORING_WEIGHTS[c] ELSE 0)
             + SumOver(b, cats \ {c})

ExactSum(b) == SumOver(b, DOMAIN SCORING_WEIGHTS)

Abs(n) == IF n < 0 THEN 0 - n ELSE n

\* C8 as stated: the score is the weighted sum itself.
ScoreIsExactSum ==
    score.plain # None => score.plain[1] = ExactSum(bucket)

\* C8: the score is the weighted sum rounded to two decimals (a multiple of
\* 0.01 within 0.004 of the sum); a category outside the weights leaves it
\* unchanged; the score of the empty bucket is 0.
ScoreIsRoundedSum ==
    /\ score.plain # None =>
           /\ score.plain[1] % 5 = 0
           /\ Abs(score.plain[1] - ExactSum(bucket)) <= 2
           /\ (bucket = EmptyBucket => score.plain[1] = 0)
    /\ (score.plain # None /\ score.extended # None) => score.extended = score.plain

ScoreIsRoundedSumWitness ==
    /\ score.plain # None
    /\ score.extended # None
    /\ extra.val # None
    /\ ExactSum(bucket) % 5 # 0
    /\ score.plain[1] # 0

\* the team of league_stats an entry of a response is about
TeamOfEntry(e) == TeamOf(league_stats[e.team[2]])

NoGamesThisWeek(team) ==
    \A i \in DOMAIN team.roster : GamesThisWeek(team.roster[i].schedule, today) = 0

\* C7: a team whose players all have no game in this week's window has 0 in
\* every entry of its projected weekly totals, in both responses.
NoGamesNoWeeklyProjection ==
    (out.op \in {"detailed", "summary"} /\ out.status = "ok") =>
        \A i \in DOMAIN out.value :
            NoGamesThisWeek(TeamOfEntry(out.value[i])) =>
                \A c \in DOMAIN out.value[i].projected_weekly_totals :
                    out.value[i].projected_weekly_totals[c] = 0

\* C9: the summary holds the entry of every team once, in descending order
\* of projected weekly FPTS, teams with equal FPTS in the order of league.teams.
SummarySortedStable ==
    out.op = "summary" =>
        LET v == out.value
        IN  /\ out.status = "ok"
            /\ Len(v) = Len(league_stats)
            /\ \A i \in DOMAIN v : v[i] = SummaryEntry(TeamOfEntry(v[i]))
            /\ \A i, j \in DOMAIN v : i < j =>
                   /\ v[i].team # v[j].team
                   /\ v[i].projected_weekly_totals["FPTS"]
                          >= v[j].projected_weekly_totals["FPTS"]
                   /\ (v[i].projected_weekly_totals["FPTS"]
                          = v[j].projected_weekly_totals["FPTS"]
                       => v[i].team[2] < v[j].team[2])

SummarySortedStableWitness ==
    /\ out.op = "summary"
    /\ Len(out.value) = 3
    /\ out.value[1].team[2] # 1
    /\ \E i, j \in DOMAIN out.value :
           /\ i < j
           /\ out.value[i].projected_weekly_totals["FPTS"]
                  = out.value[j].projected_weekly_totals["FPTS"]
           /\ out.value[i].projected_weekly_totals["FPTS"] > 0
    /\ out.value[1].projected_weekly_totals["FPTS"]
           > out.value[3].projected_weekly_totals["FPTS"]

====
